---- MODULE Spec2Model ----
(***************************************************************************)
(* Model of the inline diff view manager (src/src/diffView/InlineDiff.ts): *)
(* the change list built by openDiffView from the line diff of a document  *)
(* and a proposed content, and its resolution by acceptChange,             *)
(* rejectChange, acceptAllChanges and rejectAllChanges.                    *)
(*                                                                         *)
(* A text is a sequence of one-character strings, NL being the line break. *)
(* Line numbers and change indices are 0-based, as in the source; TLA+     *)
(* sequences are 1-based, so changes[index] of the source is               *)
(* changes[index + 1] here.                                                *)
(***************************************************************************)
EXTENDS Integers, Sequences, FiniteSets, TLC

\* ------------------------------------------------------------------ bounds
\* Largest number of lines of the document a diff is applied to.
MaxDocLines == 3

\* Largest number of lines of a proposed content.
MaxNewLines == 2

\* Largest number of diffs applied to the document in one behaviour.
MaxOpens == 2
\* Calls of start that are made, the ones made by restart included.
MaxStarts == 3

\* ------------------------------------------------------------- input texts
NL == "\n"

Letters == {"a", "b"}

RECURSIVE Flatten(_)
Flatten(ss) ==
  IF ss = <<>> THEN <<>> ELSE Head(ss) \o Flatten(Tail(ss))

\* The text made of the lines ls, each but the last followed by a line
\* break, the last one followed by a line break iff eofNl.
MkText(ls, eofNl) ==
  Flatten([i \in 1..Len(ls) |->
             IF i < Len(ls) \/ eofNl THEN <<ls[i], NL>> ELSE <<ls[i]>>])

LineSeqs(max) == UNION {[1..n -> Letters] : n \in 0..max}

\* The texts of at most max lines, with and without a final line break.
Texts(max) == {MkText(ls, nl) : ls \in LineSeqs(max), nl \in BOOLEAN}

\* The documents a diff is applied to.
Documents == Texts(MaxDocLines)

\* ------------------------------------------------- the document of the host
\* vscode.TextDocument.lineCount: the number of line breaks plus one.
LineCount(t) == 1 + Cardinality({i \in 1..Len(t) : t[i] = NL})

\* Number of characters before Position(line, 0) once the host has validated
\* the position: a line past the last one is clamped to the end of the text.
OffsetAt(t, line) ==
  IF line <= 0 THEN 0
  ELSE IF line >= LineCount(t) THEN Len(t)
  ELSE CHOOSE k \in 1..Len(t) :
         /\ t[k] = NL
         /\ Cardinality({i \in 1..k : t[i] = NL}) = line

\* The text between Position(startLine, 0) and Position(endLine, 0).
TextOfLines(t, startLine, endLine) ==
  SubSeq(t, OffsetAt(t, startLine) + 1, OffsetAt(t, endLine))

\* An edit is [start, end, value]: replace Range(start, 0, end, 0) by value.
\* All the edits of one request address the text as it was before the
\* request; the source builds them from the last change to the first, so
\* they are applied in that order, each one leaving the offsets of the
\* earlier ranges untouched.
RECURSIVE ApplyEdits(_, _)
ApplyEdits(t, edits) ==
  IF edits = <<>> THEN t
  ELSE LET e == Head(edits)
           s == OffsetAt(t, e.start)
           f == OffsetAt(t, e.end)
       IN ApplyEdits(SubSeq(t, 1, s) \o e.value \o SubSeq(t, f + 1, Len(t)),
                     Tail(edits))

\* ------------------------------------------------------------ the line diff
\* Tokens of diffLines: every line with its line break; the last token has
\* no line break when the text does not end with one.
RECURSIVE Tokenize(_)
Tokenize(t) ==
  IF t = <<>> THEN <<>>
  ELSE IF \E k \in 1..Len(t) : t[k] = NL
       THEN LET k == CHOOSE q \in 1..Len(t) :
                       t[q] = NL /\ \A p \in 1..(q - 1) : t[p] # NL
            IN <<SubSeq(t, 1, k)>> \o Tokenize(SubSeq(t, k + 1, Len(t)))
       ELSE <<t>>

\* Edit scripts from token i of o and token j of m: "u" keeps a common
\* token, "r" removes a token of o, "a" adds a token of m. Within a run of
\* changes the removals come before the additions.
RECURSIVE Scripts(_, _, _, _, _)
Scripts(o, m, i, j, prev) ==
  IF i > Len(o) /\ j > Len(m) THEN {<<>>}
  ELSE (IF i <= Len(o) /\ j <= Len(m) /\ o[i] = m[j]
        THEN {<<"u">> \o p : p \in Scripts(o, m, i + 1, j + 1, "u")}
        ELSE {})
       \cup
       (IF i <= Len(o) /\ prev # "a"
        THEN {<<"r">> \o p : p \in Scripts(o, m, i + 1, j, "r")}
        ELSE {})
       \cup
       (IF j <= Len(m)
        THEN {<<"a">> \o p : p \in Scripts(o, m, i, j + 1, "a")}
        ELSE {})

ScriptCost(p) == Cardinality({k \in 1..Len(p) : p[k] # "u"})

\* The shortest edit scripts.
ShortestScripts(o, m) ==
  LET all == Scripts(o, m, 1, 1, "u")
  IN {p \in all : \A q \in all : ScriptCost(p) <= ScriptCost(q)}

KindOf(op) ==
  IF op = "u" THEN "unchanged" ELSE IF op = "r" THEN "removed" ELSE "added"

\* The parts of a script: one part per maximal run of the same operation,
\* with the number of its tokens and their concatenation.
RECURSIVE PartsOf(_, _, _, _, _)
PartsOf(o, m, p, i, j) ==
  IF p = <<>> THEN <<>>
  ELSE LET op   == Head(p)
           tok  == IF op = "a" THEN m[j] ELSE o[i]
           rest == PartsOf(o, m, Tail(p),
                           IF op = "a" THEN i ELSE i + 1,
                           IF op = "r" THEN j ELSE j + 1)
       IN IF rest # <<>> /\ Len(p) > 1 /\ p[2] = op
          THEN <<[kind  |-> KindOf(op),
                  count |-> 1 + Head(rest).count,
                  value |-> tok \o Head(rest).value]>> \o Tail(rest)
          ELSE <<[kind |-> KindOf(op), count |-> 1, value |-> tok]>> \o rest

\* diffLines(oldStr, newStr): the part lists of the shortest scripts. The
\* library returns one of them.
diffLines(oldStr, newStr) ==
  LET o == Tokenize(oldStr)
      m == Tokenize(newStr)
  IN {PartsOf(o, m, p, 1, 1) : p \in ShortestScripts(o, m)}


\* content.replace(/\r?\n/g, lineEol) for a document whose line break is NL:
\* a carriage return right before a line break is dropped.
CR == "\r"

RECURSIVE ReplaceEol(_)
ReplaceEol(t) ==
  IF t = <<>> THEN <<>>
  ELSE IF Len(t) >= 2 /\ t[1] = CR /\ t[2] = NL
       THEN <<NL>> \o ReplaceEol(SubSeq(t, 3, Len(t)))
       ELSE <<Head(t)>> \o ReplaceEol(Tail(t))

\* The same text with CR NL line breaks, as a proposal may come.
RECURSIVE WithCrLf(_)
WithCrLf(t) ==
  IF t = <<>> THEN <<>>
  ELSE (IF Head(t) = NL THEN <<CR, NL>> ELSE <<Head(t)>>) \o WithCrLf(Tail(t))

\* --------------------------------------------------------- change records
\* seg is not a field of the source: it records the index of the diff part
\* the record was built from, so that a record can be followed through the
\* renumbering.
NoChange == [type |-> "none"]

RemovedChange(line, count, value, seg) ==
  [type |-> "removed", line |-> line, count |-> count, value |-> value,
   seg |-> seg]

AddedChange(line, count, value, seg) ==
  [type |-> "added", line |-> line, count |-> count, value |-> value,
   seg |-> seg]

ModifiedChange(removed, added) ==
  [type |-> "modified", removed |-> removed, added |-> added]

\* Mutant of CurrentChange: a pending removed part is not flushed by an
\* unchanged part.
CurrentChangeNoFlush(differences, k, lineNumber, lastRemoved) ==
  LET part == differences[k]
  IN IF part.kind = "removed"
     THEN (IF k = Len(differences)
           THEN RemovedChange(lineNumber, part.count, part.value, k)
           ELSE NoChange)
     ELSE IF part.kind = "added"
     THEN (IF lastRemoved # NoChange
           THEN ModifiedChange(lastRemoved,
                  AddedChange(lineNumber, part.count, part.value, k))
           ELSE AddedChange(lineNumber, part.count, part.value, k))
     ELSE NoChange

\* The change, if any, the builder loop pushes for part k, lastRemoved being
\* the removed part that still waits for an added one.
CurrentChange(differences, k, lineNumber, lastRemoved) ==
  LET part == differences[k]
  IN IF part.kind = "removed"
     THEN (IF k = Len(differences)
           THEN RemovedChange(lineNumber, part.count, part.value, k)
           ELSE NoChange)
     ELSE IF part.kind = "added"
     THEN (IF lastRemoved # NoChange
           THEN ModifiedChange(lastRemoved,
                  AddedChange(lineNumber, part.count, part.value, k))
           ELSE AddedChange(lineNumber, part.count, part.value, k))
     ELSE lastRemoved

\* Mutant of NextLine: the removed lines are taken not to occupy rows.
NextLineSkipsRemoved(lineNumber, part) ==
  IF part.kind = "removed" THEN lineNumber ELSE lineNumber + part.count

\* lineNumber += part.count
NextLine(lineNumber, part) == lineNumber + part.count

\* The builder loop of openDiffView over the parts k..Len(differences); acc
\* holds lineNumber, lastRemoved, changes and combineContent.
RECURSIVE BuildLoop(_, _, _)
BuildLoop(differences, k, acc) ==
  IF k > Len(differences) THEN acc
  ELSE
    LET part == differences[k]
        currentChange ==
          CurrentChange(differences, k, acc.lineNumber, acc.lastRemoved)
    IN BuildLoop(differences, k + 1,
         [lineNumber     |-> NextLine(acc.lineNumber, part),
          lastRemoved    |-> IF part.kind = "removed"
                             THEN RemovedChange(acc.lineNumber, part.count,
                                                part.value, k)
                             ELSE NoChange,
          changes        |-> IF currentChange # NoChange
                             THEN Append(acc.changes, currentChange)
                             ELSE acc.changes,
          combineContent |-> acc.combineContent \o part.value])

BuildChanges(differences) ==
  BuildLoop(differences, 1,
            [lineNumber |-> 0, lastRemoved |-> NoChange, changes |-> <<>>,
             combineContent |-> <<>>])

\* ------------------------------------------------- resolution of a change
PrimaryLine(change) ==
  IF change.type = "modified" THEN change.removed.line ELSE change.line

\* Mutant of ShiftChange: the added block of a Modified is left in place.
ShiftChangeRemovedOnly(change, count) ==
  IF change.type = "modified"
  THEN [change EXCEPT !.removed.line = @ - count]
  ELSE [change EXCEPT !.line = @ - count]

\* Mutant of ShiftChange: the removed block of a Modified is left in place.
ShiftChangeAddedOnly(change, count) ==
  IF change.type = "modified"
  THEN [change EXCEPT !.added.line = @ - count]
  ELSE [change EXCEPT !.line = @ - count]

\* change.removed.line -= count; change.added.line -= count, or
\* change.line -= count
ShiftChange(change, count) ==
  IF change.type = "modified"
  THEN [change EXCEPT !.removed.line = @ - count, !.added.line = @ - count]
  ELSE [change EXCEPT !.line = @ - count]

\* drawChanges(editor, fileChange, index, count): the changes after index
\* are moved up by count lines, then the change at index is spliced out.
drawChanges(changes, index, count) ==
  LET shifted == [i \in 1..Len(changes) |->
                    IF i - 1 >= index + 1 THEN ShiftChange(changes[i], count)
                    ELSE changes[i]]
  IN IF index >= 0 /\ index < Len(changes)
     THEN SubSeq(shifted, 1, index) \o SubSeq(shifted, index + 2, Len(shifted))
     ELSE shifted

\* getChangeIndex: the first change whose span holds the cursor line, or -1.
getChangeIndex(changes, line) ==
  LET Holds(change) ==
        IF change.type = "modified"
        THEN /\ line >= change.removed.line
             /\ line < change.removed.line + change.removed.count
                         + change.added.count
        ELSE line >= change.line /\ line < change.line + change.count
      hits == {i \in 1..Len(changes) : Holds(changes[i])}
  IN IF hits = {} THEN -1
     ELSE (CHOOSE i \in hits : \A j \in hits : i <= j) - 1

Edit(start, end, value) == [start |-> start, end |-> end, value |-> value]

\* Mutant of AcceptEdit: the range of a Modified stops where its added block
\* starts.
AcceptEditShortRange(change) ==
  IF change.type = "removed"
  THEN [edits |-> <<Edit(change.line, change.line + change.count, <<>>)>>,
        count |-> change.count]
  ELSE IF change.type = "added"
  THEN [edits |-> <<>>, count |-> 0]
  ELSE [edits |-> <<Edit(change.removed.line, change.added.line,
                         change.added.value)>>,
        count |-> change.removed.count]

\* The edit and the line count acceptChange computes for a change.
AcceptEdit(change) ==
  IF change.type = "removed"
  THEN [edits |-> <<Edit(change.line, change.line + change.count, <<>>)>>,
        count |-> change.count]
  ELSE IF change.type = "added"
  THEN [edits |-> <<>>, count |-> 0]
  ELSE [edits |-> <<Edit(change.removed.line,
                         change.added.line + change.added.count,
                         change.added.value)>>,
        count |-> change.removed.count]

\* Mutant of RejectEdit: rejecting a Removed record deletes its lines.
RejectEditDeletesRemoved(change) ==
  IF change.type = "removed" \/ change.type = "added"
  THEN [edits |-> <<Edit(change.line, change.line + change.count, <<>>)>>,
        count |-> change.count]
  ELSE [edits |-> <<Edit(change.removed.line,
                         change.added.line + change.added.count,
                         change.removed.value)>>,
        count |-> change.added.count]

\* The edit and the line count rejectChange computes for a change.
RejectEdit(change) ==
  IF change.type = "removed"
  THEN [edits |-> <<>>, count |-> 0]
  ELSE IF change.type = "added"
  THEN [edits |-> <<Edit(change.line, change.line + change.count, <<>>)>>,
        count |-> change.count]
  ELSE [edits |-> <<Edit(change.removed.line,
                         change.added.line + change.added.count,
                         change.removed.value)>>,
        count |-> change.added.count]

\* The deletions of acceptAllChanges, from the last change to the first.
RECURSIVE AcceptAllEdits(_, _)
AcceptAllEdits(changes, i) ==
  IF i < 0 THEN <<>>
  ELSE LET change == changes[i + 1]
       IN (IF change.type = "added" THEN <<>>
           ELSE IF change.type = "removed"
           THEN <<Edit(change.line, change.line + change.count, <<>>)>>
           ELSE <<Edit(change.removed.line,
                       change.removed.line + change.removed.count, <<>>)>>)
          \o AcceptAllEdits(changes, i - 1)

\* The deletions of rejectAllChanges, from the last change to the first.
RECURSIVE RejectAllEdits(_, _)
RejectAllEdits(changes, i) ==
  IF i < 0 THEN <<>>
  ELSE LET change == changes[i + 1]
       IN (IF change.type = "added"
           THEN <<Edit(change.line, change.line + change.count, <<>>)>>
           ELSE IF change.type = "removed" THEN <<>>
           ELSE <<Edit(change.added.line,
                       change.added.line + change.added.count, <<>>)>>)
          \o RejectAllEdits(changes, i - 1)


\* ------------------------------------------------------------------- state
VARIABLES
  doc,            \* the text of the document
  scheme,         \* "file" or "untitled": the scheme of the document's uri
  heap,           \* the fileChange objects, by identity
  fileChangeMap,  \* the object stored for the document's uri, or None
  reqs,           \* the calls in flight and where each one is suspended
  out,            \* what the last step emitted
  g,              \* history: the last diff applied and what became of it
  dirty,          \* document.isDirty: the text has changes that are not saved
  codeLenses,     \* the code lenses the host was last given
  svc             \* the AiderChatService, its start calls and processes

vars ==
  <<doc, scheme, heap, fileChangeMap, reqs, out, g, dirty, codeLenses, svc>>

None == 0

ObjIds == {1, 2}

ReqIds == {"r1", "r2"}

NoObj == [originalContent |-> <<>>, modifiedContent |-> <<>>,
          changes |-> <<>>, live |-> FALSE]

FileChange(original, modified, changes) ==
  [originalContent |-> original, modifiedContent |-> modified,
   changes |-> changes, live |-> TRUE]

\* A call that is not running.
IdleReq ==
  [pc |-> "idle", op |-> "none", fc |-> None, index |-> 0, count |-> 0,
   edits |-> <<>>, applied |-> FALSE, built |-> NoObj, parts |-> <<>>,
   before |-> <<>>, content |-> <<>>, loop |-> FALSE]

NoHistory ==
  [op |-> "none", O |-> <<>>, M |-> <<>>, segs |-> <<>>,
   dec |-> <<>>, opens |-> 0]

Quiet == \A r \in ReqIds : reqs[r].pc = "idle"

\* An object nothing refers to any more is dropped from the heap.
Collect(h, map, rq) ==
  [id \in ObjIds |->
     IF id = map \/ \E r \in ReqIds : rq[r].pc # "idle" /\ rq[r].fc = id
     THEN h[id] ELSE NoObj]

FreshObj(h) == CHOOSE id \in ObjIds : ~h[id].live

StartIds == 1 .. MaxStarts

\* The service after construction. Call k of start spawns process k.
\*   pc[k]       where call k is: "idle" (not made), "check" (at the await
\*               of the package check), "workspace" (at the await of
\*               getWorkspacePath), "starting" (at the promise of the
\*               spawned process), "resolved", "rejected"
\*   process[k]  "none", "alive", "killed" (signal sent, exit not yet
\*               reported), "exited", "failing" (spawn failed, error not yet
\*               reported), "failed"
NewService(production) ==
  [aiderChatProcess |-> None, port |-> 0, production |-> production,
   pc |-> [k \in StartIds |-> "idle"],
   process |-> [k \in StartIds |-> "none"],
   timer |-> [k \in StartIds |-> FALSE],
   isRunning |-> [k \in StartIds |-> FALSE],
   randomPort |-> [k \in StartIds |-> 0]]

Init ==
  /\ doc \in Documents
  /\ scheme \in {"file", "untitled"}
  /\ heap = [id \in ObjIds |-> NoObj]
  /\ fileChangeMap = None
  /\ reqs = [r \in ReqIds |-> IdleReq]
  /\ out = <<>>
  /\ g = NoHistory
  /\ dirty \in BOOLEAN
  /\ codeLenses = <<>>
  /\ svc = NewService(TRUE)

\* ---------------------------------------------------------------- the host
\* The host applies the edits a call is waiting for.
HostApply(r) ==
  /\ reqs[r].pc = "await"
  /\ doc' = ApplyEdits(doc, reqs[r].edits)
  /\ reqs' = [reqs EXCEPT ![r].pc = "resumed", ![r].applied = TRUE]
  /\ dirty' = (dirty \/ reqs[r].edits # <<>>)
  /\ out' = <<>>
  /\ UNCHANGED <<scheme, heap, fileChangeMap, g, codeLenses, svc>>

\* The host refuses the edits a call is waiting for: editor.edit and
\* workspace.applyEdit then resolve to false.
HostRefuse(r) ==
  /\ reqs[r].pc = "await"
  /\ reqs[r].edits # <<>>
  /\ reqs' = [reqs EXCEPT ![r].pc = "resumed", ![r].applied = FALSE]
  /\ out' = <<>>
  /\ UNCHANGED <<doc, scheme, heap, fileChangeMap, g, dirty, codeLenses, svc>>

\* ------------------------------------------------------------ openDiffView
\* Up to the await of applyEdit: the document is read, diffed against the
\* proposed content, and the replacement of the whole text is issued.
OpenBegin(r, content) ==
  /\ reqs[r].pc = "idle"
  /\ LET modifiedContent == ReplaceEol(content)
         currentContent == doc
     IN \E differences \in diffLines(currentContent, modifiedContent) :
          LET b == BuildChanges(differences)
          IN reqs' = [reqs EXCEPT ![r] =
               [IdleReq EXCEPT
                  !.pc = "await", !.op = "open",
                  !.edits = <<Edit(0, LineCount(doc), b.combineContent)>>,
                  !.built = FileChange(currentContent, modifiedContent,
                                       b.changes),
                  !.parts = differences,
                  !.before = doc,
                  !.content = content]]
  /\ out' = <<>>
  /\ UNCHANGED <<doc, scheme, heap, fileChangeMap, g, dirty, codeLenses, svc>>

\* Mutant of OpenFinish: a changeset already in the map is kept.
OpenFinishKeepsExisting(r) ==
  /\ reqs[r].pc = "resumed"
  /\ reqs[r].op = "open"
  /\ LET id == IF fileChangeMap # None THEN fileChangeMap ELSE FreshObj(heap)
         rq == [reqs EXCEPT ![r] = IdleReq]
         b  == IF fileChangeMap # None THEN heap[fileChangeMap]
               ELSE reqs[r].built
     IN /\ fileChangeMap' = id
        /\ reqs' = rq
        /\ heap' = Collect([heap EXCEPT ![id] = b], id, rq)
        /\ g' = [op |-> "open", O |-> b.originalContent,
                 M |-> b.modifiedContent, segs |-> reqs[r].parts,
                 dec |-> [k \in 1..Len(reqs[r].parts) |-> "pending"],
                 opens |-> g.opens + 1]
  /\ out' = <<"add", "lens">>
  /\ UNCHANGED <<doc, scheme, dirty, codeLenses, svc>>

\* After the await: the changeset is stored, 'add' is fired and the changes
\* are drawn.
OpenFinish(r) ==
  /\ reqs[r].pc = "resumed"
  /\ reqs[r].op = "open"
  /\ LET id == FreshObj(heap)
         rq == [reqs EXCEPT ![r] = IdleReq]
         b  == reqs[r].built
     IN /\ fileChangeMap' = id
        /\ reqs' = rq
        /\ heap' = Collect([heap EXCEPT ![id] = b], id, rq)
        /\ g' = [op |-> "open", O |-> b.originalContent,
                 M |-> b.modifiedContent, segs |-> reqs[r].parts,
                 dec |-> [k \in 1..Len(reqs[r].parts) |-> "pending"],
                 opens |-> g.opens + 1]
  /\ out' = <<"add", "lens">>
  /\ UNCHANGED <<doc, scheme, dirty, codeLenses, svc>>


\* ------------------------------------------- acceptChange and rejectChange
\* The history after the change at index of changes was resolved by op.
Decided(changes, index, op) ==
  IF index >= 0 /\ index < Len(changes) /\ g.dec # <<>>
  THEN LET change == changes[index + 1]
       IN [g EXCEPT
             !.op = op,
             !.dec = [k \in DOMAIN g.dec |->
                        IF change.type = "modified"
                        THEN (IF k \in {change.removed.seg, change.added.seg}
                              THEN op ELSE g.dec[k])
                        ELSE (IF k = change.seg THEN op ELSE g.dec[k])]]
  ELSE [g EXCEPT !.op = op]

\* saveDocument(editor): what it emits for a document that is dirty or not.
saveDocument(isDirty) == IF isDirty THEN <<"save">> ELSE <<>>

\* Mutant of SaveOrClose: a rejected document is saved whatever its scheme.
SaveOrCloseIgnoresScheme(op, sch, isDirty) == saveDocument(isDirty)

\* What follows the notification once the changeset is gone: acceptChange
\* and acceptAllChanges save the document; rejectChange and rejectAllChanges
\* save it when its scheme is 'file' and close the active editor otherwise.
SaveOrClose(op, sch, isDirty) ==
  IF op = "accept" \/ sch = "file" THEN saveDocument(isDirty)
  ELSE <<"close">>

\* document.isDirty after SaveOrClose: a saved document is clean.
DirtyAfter(op, sch, isDirty) ==
  IF op = "accept" \/ sch = "file" THEN FALSE ELSE isDirty

\* The notification type of a bulk resolution.
Single(op) == IF op = "acceptAll" THEN "accept" ELSE "reject"

\* Mutant of MapAfter: the emptied changeset stays in the map.
MapAfterKeeps(changes, map) == map

\* if (fileChange.changes.length === 0) this.fileChangeMap.delete(uri)
MapAfter(changes, map) == IF Len(changes) = 0 THEN None ELSE map

\* From drawChanges(editor, fileChange, index, count) to the end of
\* acceptChange (op = "accept") or rejectChange (op = "reject"), for the
\* call r that holds the object fc.
ResolveTail(r, op, fc, index, count) ==
  LET changes == drawChanges(heap[fc].changes, index, count)
      rq      == [reqs EXCEPT ![r] = IdleReq]
      map     == MapAfter(changes, fileChangeMap)
  IN /\ fileChangeMap' = map
     /\ reqs' = rq
     /\ heap' = Collect([heap EXCEPT ![fc].changes = changes], map, rq)
     /\ out' = IF Len(changes) = 0
               THEN <<"lens", op>> \o SaveOrClose(op, scheme, dirty)
               ELSE <<"lens">>
     /\ dirty' = IF Len(changes) = 0
                 THEN DirtyAfter(op, scheme, dirty) ELSE dirty
     /\ g' = Decided(heap[fc].changes, index, op)

EditFor(op, change) ==
  IF op = "accept" THEN AcceptEdit(change) ELSE RejectEdit(change)

\* new vscode.Position(line, 0) throws for a negative line.
IllegalEdits(edits) ==
  \E k \in 1..Len(edits) : edits[k].start < 0 \/ edits[k].end < 0

\* acceptChange(uri, i) and rejectChange(uri, i) up to their first await, or
\* to their end when they do not wait. current: the active editor shows the
\* document; given: the call has an index, which is i; cursor: the line of
\* the selection.
ResolveBegin(r, op, current, given, i, cursor) ==
  /\ reqs[r].pc = "idle"
  /\ IF ~current \/ fileChangeMap = None
     THEN /\ out' = <<>>
          /\ UNCHANGED <<doc, scheme, heap, fileChangeMap, reqs, g, dirty,
                           codeLenses, svc>>
     ELSE
       LET fc      == fileChangeMap
           changes == heap[fc].changes
           index   == IF given THEN i ELSE getChangeIndex(changes, cursor)
       IN IF ~given /\ index = -1
          THEN /\ out' = <<>>
               /\ UNCHANGED <<doc, scheme, heap, fileChangeMap, reqs, g,
                              dirty, codeLenses, svc>>
          ELSE IF index < 0 \/ index >= Len(changes)
          THEN \* changes[index] is undefined: change.type throws
               /\ out' = <<"error">>
               /\ UNCHANGED <<doc, scheme, heap, fileChangeMap, reqs, g,
                              dirty, codeLenses, svc>>
          ELSE
            LET e == EditFor(op, changes[index + 1])
            IN IF IllegalEdits(e.edits)
               THEN /\ out' = <<"error">>
                    /\ UNCHANGED <<doc, scheme, heap, fileChangeMap, reqs, g,
                              dirty, codeLenses, svc>>
               ELSE IF e.count # 0
               THEN /\ reqs' = [reqs EXCEPT ![r] =
                          [IdleReq EXCEPT
                             !.pc = "await", !.op = op, !.fc = fc,
                             !.index = index, !.count = e.count,
                             !.edits = e.edits, !.before = doc]]
                    /\ out' = <<>>
                    /\ UNCHANGED <<doc, scheme, heap, fileChangeMap, g,
                                   dirty, codeLenses, svc>>
               ELSE /\ ResolveTail(r, op, fc, index, e.count)
                    /\ UNCHANGED <<doc, scheme, codeLenses, svc>>

\* Mutant of ResolveFinish: the call resumes while the host has not yet
\* completed the edit.
ResolveFinishEarly(r) ==
  /\ reqs[r].pc \in {"await", "resumed"}
  /\ reqs[r].op \in {"accept", "reject"}
  /\ ResolveTail(r, reqs[r].op, reqs[r].fc, reqs[r].index, reqs[r].count)
  /\ UNCHANGED <<doc, scheme, codeLenses, svc>>

\* acceptChange and rejectChange after the await of editor.edit.
ResolveFinish(r) ==
  /\ reqs[r].pc = "resumed"
  /\ reqs[r].op \in {"accept", "reject"}
  /\ ResolveTail(r, reqs[r].op, reqs[r].fc, reqs[r].index, reqs[r].count)
  /\ UNCHANGED <<doc, scheme, codeLenses, svc>>

\* --------------------------------- acceptAllChanges and rejectAllChanges
\* Mutant of AllBegin: a call that finds no changeset fires the notification
\* of a resolution all the same.
AllBeginFiresOnMissing(r, op) ==
  /\ reqs[r].pc = "idle"
  /\ IF fileChangeMap = None
     THEN UNCHANGED reqs /\ out' = <<Single(op)>>
     ELSE /\ reqs' = [reqs EXCEPT ![r] =
               [IdleReq EXCEPT !.pc = "show", !.op = op,
                               !.fc = fileChangeMap]]
          /\ out' = <<>>
  /\ UNCHANGED <<doc, scheme, heap, fileChangeMap, g, dirty, codeLenses, svc>>

\* Up to the await of showTextDocument.
AllBegin(r, op) ==
  /\ reqs[r].pc = "idle"
  /\ IF fileChangeMap = None
     THEN UNCHANGED reqs
     ELSE reqs' = [reqs EXCEPT ![r] =
            [IdleReq EXCEPT !.pc = "show", !.op = op, !.fc = fileChangeMap]]
  /\ out' = <<>>
  /\ UNCHANGED <<doc, scheme, heap, fileChangeMap, g, dirty, codeLenses, svc>>

\* The loop over the changes, up to the await of applyEdit.
AllIssue(r) ==
  /\ reqs[r].pc = "show"
  /\ LET changes == heap[reqs[r].fc].changes
         edits   == IF reqs[r].op = "acceptAll"
                    THEN AcceptAllEdits(changes, Len(changes) - 1)
                    ELSE RejectAllEdits(changes, Len(changes) - 1)
     IN IF IllegalEdits(edits)
        THEN /\ reqs' = [reqs EXCEPT ![r] = IdleReq]
             /\ out' = <<"error">>
        ELSE /\ reqs' = [reqs EXCEPT ![r].pc = "await", ![r].edits = edits,
                                     ![r].before = doc]
             /\ out' = <<>>
  /\ heap' = Collect(heap, fileChangeMap, reqs')
  /\ UNCHANGED <<doc, scheme, fileChangeMap, g, dirty, codeLenses, svc>>

\* After the await of applyEdit: the changeset is deleted from the map.
AllFinish(r) ==
  /\ reqs[r].pc = "resumed"
  /\ reqs[r].op \in {"acceptAll", "rejectAll"}
  /\ LET rq == [reqs EXCEPT ![r] = IdleReq]
         op == reqs[r].op
     IN /\ fileChangeMap' = None
        /\ reqs' = rq
        /\ heap' = Collect(heap, None, rq)
        /\ out' = <<Single(op)>> \o SaveOrClose(Single(op), scheme, dirty)
                    \o <<"lens">>
        /\ dirty' = DirtyAfter(Single(op), scheme, dirty)
        /\ g' = [g EXCEPT
                   !.op = IF reqs[r].loop THEN "rejectAllFile" ELSE op,
                   !.dec = [k \in DOMAIN g.dec |->
                              IF g.dec[k] = "pending"
                              THEN Single(op)
                              ELSE g.dec[k]]]
  /\ UNCHANGED <<doc, scheme, codeLenses, svc>>

\* ----------------------------------------------------------- rejectAllFile
\* rejectAllFile(): rejectAllChanges for every key of the map. The map has
\* the key of the document or none; the changeset is deleted at the end of
\* rejectAllChanges, so the loop ends with that call.
rejectAllFile(r) ==
  /\ reqs[r].pc = "idle"
  /\ IF fileChangeMap = None
     THEN UNCHANGED reqs
     ELSE reqs' = [reqs EXCEPT ![r] =
            [IdleReq EXCEPT !.pc = "show", !.op = "rejectAll",
                            !.fc = fileChangeMap, !.loop = TRUE]]
  /\ out' = <<>>
  /\ UNCHANGED <<doc, scheme, heap, fileChangeMap, g, dirty, codeLenses, svc>>

\* ------------------------------------------------ onDidCloseTextDocument
\* Mutant of CloseDocument: the changeset is dropped without a notification.
CloseDocumentSilent ==
  /\ IF fileChangeMap = None
     THEN UNCHANGED <<heap, fileChangeMap, g>>
     ELSE /\ fileChangeMap' = None
          /\ heap' = Collect(heap, None, reqs)
          /\ g' = [g EXCEPT !.op = "close"]
  /\ out' = <<>>
  /\ UNCHANGED <<doc, scheme, reqs, dirty, codeLenses, svc>>

\* The handler of onDidCloseTextDocument for the document, whose scheme is
\* 'file' or 'untitled': a changeset in the map is deleted and 'reject' is
\* fired; without one the handler returns at once.
CloseDocument ==
  /\ IF fileChangeMap = None
     THEN /\ out' = <<>>
          /\ UNCHANGED <<heap, fileChangeMap, g>>
     ELSE /\ fileChangeMap' = None
          /\ heap' = Collect(heap, None, reqs)
          /\ out' = <<"reject">>
          /\ g' = [g EXCEPT !.op = "close"]
  /\ UNCHANGED <<doc, scheme, reqs, dirty, codeLenses, svc>>

\* ----------------------------------------------------- provideCodeLenses
CodeLens(title, line, i) ==
  [title |-> title, line |-> line, index |-> i,
   command |-> IF title = "Accept" THEN "aider-composer.AcceptChange"
               ELSE "aider-composer.RejectChange"]

\* Mutant of provideCodeLenses: a Modified record is anchored at its added
\* block.
provideCodeLensesAtAdded(map, h) ==
  IF map = None THEN <<>>
  ELSE Flatten([i \in 1..Len(h[map].changes) |->
         LET change == h[map].changes[i]
             line   == IF change.type = "modified" THEN change.added.line
                       ELSE change.line
         IN <<CodeLens("Accept", line, i - 1),
              CodeLens("Reject", line, i - 1)>>])

\* provideCodeLenses(document): for the changeset of the document in map,
\* an Accept and a Reject lens per change, at the line of the change (of its
\* removed block for a Modified), with the index of the change as argument.
provideCodeLenses(map, h) ==
  IF map = None THEN <<>>
  ELSE Flatten([i \in 1..Len(h[map].changes) |->
         LET change == h[map].changes[i]
             line   == IF change.type = "modified" THEN change.removed.line
                       ELSE change.line
         IN <<CodeLens("Accept", line, i - 1),
              CodeLens("Reject", line, i - 1)>>])

\* The host asks for the code lenses of the document. The method has no
\* await: it runs whenever the host asks, whatever call is suspended.
ProvideCodeLenses ==
  /\ codeLenses' = provideCodeLenses(fileChangeMap, heap)
  /\ out' = <<"codeLenses">>
  /\ UNCHANGED <<doc, scheme, heap, fileChangeMap, reqs, g, dirty, svc>>

\* The command of a lens: AcceptChange is bound to acceptChange(uri, i),
\* RejectChange to rejectChange(uri, i).
LensOp(lens) == IF lens.title = "Accept" THEN "accept" ELSE "reject"

\* The user clicks one of the lenses the host holds.
InvokeLens(r) ==
  \E k \in 1..Len(codeLenses) :
    ResolveBegin(r, LensOp(codeLenses[k]), TRUE, TRUE, codeLenses[k].index, 0)

\* -------------------------------------------------------- specifications
\* The proposed contents, with either line break.
Contents ==
  Texts(MaxNewLines) \cup {WithCrLf(t) : t \in Texts(MaxNewLines)}

Ops == {"accept", "reject"}

\* The changes of the stored changeset, none when there is no changeset.
Stored == IF fileChangeMap = None THEN <<>> ELSE heap[fileChangeMap].changes

\* The indices a call may be given: every index of the stored changes, and
\* one on each side of them.
Indices == -1..Len(Stored)

Cursors == 0..(LineCount(doc) - 1)

\* A call of acceptChange or rejectChange by r: for another document than
\* the active one, with an index, or with the index left to the cursor.
Resolve(r) ==
  \E op \in Ops :
    \/ ResolveBegin(r, op, FALSE, TRUE, 0, 0)
    \/ \E i \in Indices : ResolveBegin(r, op, TRUE, TRUE, i, 0)
    \/ \E cursor \in Cursors : ResolveBegin(r, op, TRUE, FALSE, 0, cursor)

\* Calls run one after the other and the host applies every edit. One diff
\* is applied per behaviour: a document whose changeset is resolved is in a
\* state Init already has, but for the history.
Next ==
  \/ \E content \in Contents :
       /\ Quiet /\ fileChangeMap = None /\ g.op = "none"
       /\ OpenBegin("r1", content)
  \/ OpenFinish("r1")
  \/ Quiet /\ Resolve("r1")
  \/ ResolveFinish("r1")
  \/ \E op \in {"acceptAll", "rejectAll"} : Quiet /\ AllBegin("r1", op)
  \/ AllIssue("r1")
  \/ AllFinish("r1")
  \/ HostApply("r1")

Spec == Init /\ [][Next]_vars

\* As Spec, and the host may refuse the edits of a call.
NextRefuse ==
  \/ Next
  \/ HostRefuse("r1")

SpecRefuse == Init /\ [][NextRefuse]_vars

\* As Spec, and a second call of acceptChange or rejectChange may start
\* while the first one waits for its edit, since nothing in the two methods
\* holds it back; the host applies or refuses each edit.
NextConc ==
  \/ \E content \in Contents :
       /\ Quiet /\ fileChangeMap = None /\ g.op = "none"
       /\ OpenBegin("r1", content)
  \/ OpenFinish("r1")
  \/ reqs["r2"].pc = "idle" /\ Resolve("r1")
  \/ reqs["r1"].pc \in {"await", "resumed"} /\ reqs["r1"].op \in Ops
       /\ Resolve("r2")
  \/ \E r \in ReqIds : ResolveFinish(r)
  \/ \E r \in ReqIds : HostApply(r)
  \/ HostRefuse("r2")

SpecConc == Init /\ [][NextConc]_vars

\* A call of acceptChange or rejectChange with an index, in the change list
\* or one past it.
ResolveAt(r) ==
  \E op \in Ops : \E i \in 0..Len(Stored) :
    ResolveBegin(r, op, TRUE, TRUE, i, 0)

\* Calls with an index and bulk calls run one after the other, and the
\* document may be closed between two calls.
NextClose ==
  \/ \E content \in Contents :
       /\ Quiet /\ fileChangeMap = None /\ g.op = "none"
       /\ OpenBegin("r1", content)
  \/ OpenFinish("r1")
  \/ Quiet /\ ResolveAt("r1")
  \/ ResolveFinish("r1")
  \/ \E op \in {"acceptAll", "rejectAll"} : Quiet /\ AllBegin("r1", op)
  \/ AllIssue("r1")
  \/ AllFinish("r1")
  \/ HostApply("r1")
  \/ Quiet /\ CloseDocument

SpecClose == Init /\ [][NextClose]_vars

\* The changes are resolved through the code lenses: the host asks for them
\* at any time, also while a call is suspended, and the user clicks the
\* lenses the host holds, one call after the other.
NextLens ==
  \/ \E content \in Contents :
       /\ Quiet /\ fileChangeMap = None /\ g.op = "none"
       /\ OpenBegin("r1", content)
  \/ OpenFinish("r1")
  \/ Quiet /\ InvokeLens("r1")
  \/ ResolveFinish("r1")
  \/ HostApply("r1")
  \/ ProvideCodeLenses

SpecLens == Init /\ [][NextLens]_vars

\* The states of Init with a saved document of scheme 'file' that is no
\* longer than a proposed content.
InitReopen ==
  /\ Init
  /\ doc \in Texts(MaxNewLines)
  /\ scheme = "file"
  /\ ~dirty

\* A call of acceptChange or rejectChange for the first record.
ResolveFirst(r) ==
  \E op \in Ops : ResolveBegin(r, op, TRUE, TRUE, 0, 0)

\* A diff may be applied again over a changeset that is pending or partly
\* resolved, as long as the document is one Init may start with; a document
\* whose changeset is resolved is in a state Init already has.
NextReopen ==
  \/ \E content \in Contents :
       /\ Quiet /\ doc \in Texts(MaxNewLines) /\ g.opens < MaxOpens
       /\ fileChangeMap = None => g.op = "none"
       /\ OpenBegin("r1", content)
  \/ OpenFinish("r1")
  \/ Quiet /\ fileChangeMap # None /\ ResolveFirst("r1")
  \/ ResolveFinish("r1")
  \/ HostApply("r1")

SpecReopen == InitReopen /\ [][NextReopen]_vars

\* rejectAllFile is called on a changeset that is pending or of which the
\* first record was resolved.
NextRejectAllFile ==
  \/ \E content \in Contents :
       /\ Quiet /\ fileChangeMap = None /\ g.op = "none"
       /\ OpenBegin("r1", content)
  \/ OpenFinish("r1")
  \/ Quiet /\ fileChangeMap # None /\ ResolveFirst("r1")
  \/ ResolveFinish("r1")
  \/ Quiet /\ rejectAllFile("r1")
  \/ AllIssue("r1")
  \/ AllFinish("r1")
  \/ HostApply("r1")

SpecRejectAllFile == Init /\ [][NextRejectAllFile]_vars

\* A call of openDiffView by r2 may run while the call of acceptChange or
\* rejectChange by r1 is suspended at its edit: nothing in the methods holds
\* it back. The host applies the edits in either order.
NextStale ==
  \/ \E content \in Contents :
       /\ Quiet /\ fileChangeMap = None /\ g.op = "none"
       /\ OpenBegin("r2", content)
  \/ \E content \in Contents :
       /\ reqs["r1"].pc \in {"await", "resumed"} /\ reqs["r1"].op \in Ops
       /\ g.opens = 1
       /\ OpenBegin("r2", content)
  \/ OpenFinish("r2")
  \/ Quiet /\ fileChangeMap # None /\ ResolveFirst("r1")
  \/ ResolveFinish("r1")
  \/ \E r \in ReqIds : HostApply(r)

SpecStale == InitReopen /\ [][NextStale]_vars

\* ------------------------------------------------------ the chat service
Ports == {10000, 10001}

DiffViewUnchanged ==
  UNCHANGED <<doc, scheme, heap, fileChangeMap, reqs, g, dirty, codeLenses>>

\* this.aiderChatProcess?.kill(); this.aiderChatProcess = undefined
Stopped(s) ==
  [s EXCEPT
     !.process = [k \in StartIds |->
                    IF k = s.aiderChatProcess /\ s.process[k] = "alive"
                    THEN "killed" ELSE s.process[k]],
     !.aiderChatProcess = None]

\* start runs up to the await of the package check.
Begun(s, k) == [s EXCEPT !.pc[k] = "check"]

\* A settled promise stays as it is.
Settle(s, k, to) == IF s.pc[k] = "starting" THEN to ELSE s.pc[k]

NextStart(k) ==
  /\ svc.pc[k] = "idle"
  /\ \A j \in StartIds : j < k => svc.pc[j] # "idle"

start(k) ==
  /\ NextStart(k)
  /\ svc' = Begun(svc, k)
  /\ out' = <<>>
  /\ DiffViewUnchanged

stop ==
  /\ svc' = Stopped(svc)
  /\ out' = <<>>
  /\ DiffViewUnchanged

restart(k) ==
  /\ NextStart(k)
  /\ svc' = Begun(Stopped(svc), k)
  /\ out' = <<>>
  /\ DiffViewUnchanged

\* The package check exits: start rejects, or returns at once outside
\* production mode, or goes on to getWorkspacePath.
CheckExit(k, code) ==
  /\ svc.pc[k] = "check"
  /\ IF code # 0
     THEN svc' = [svc EXCEPT !.pc[k] = "rejected"] /\ out' = <<>>
     ELSE IF ~svc.production
     THEN /\ svc' = [svc EXCEPT !.port = 5000, !.pc[k] = "resolved"]
          /\ out' = <<"onStarted">>
     ELSE svc' = [svc EXCEPT !.pc[k] = "workspace"] /\ out' = <<>>
  /\ DiffViewUnchanged

\* getWorkspacePath returns: without a folder start rejects, else the
\* process is spawned, stored in the service and its timer is set.
Spawn(k, folderPath, randomPort, spawned) ==
  /\ svc.pc[k] = "workspace"
  /\ IF ~folderPath
     THEN svc' = [svc EXCEPT !.pc[k] = "rejected"]
     ELSE svc' = [svc EXCEPT
                    !.process[k] = IF spawned THEN "alive" ELSE "failing",
                    !.aiderChatProcess = k,
                    !.isRunning[k] = FALSE,
                    !.randomPort[k] = randomPort,
                    !.timer[k] = TRUE,
                    !.pc[k] = "starting"]
  /\ out' = <<>>
  /\ DiffViewUnchanged

\* The process prints the line that says it is running on its port.
checkServerRunning(k) ==
  /\ svc.process[k] \in {"alive", "killed"}
  /\ ~svc.isRunning[k]
  /\ svc' = [svc EXCEPT !.isRunning[k] = TRUE,
                        !.port = svc.randomPort[k],
                        !.timer[k] = FALSE,
                        !.pc[k] = Settle(svc, k, "resolved")]
  /\ out' = <<"onStarted">>
  /\ DiffViewUnchanged

\* The timer of call k fires: this.stop(), then reject.
Timeout(k) ==
  /\ svc.timer[k]
  /\ svc' = [Stopped(svc) EXCEPT !.timer[k] = FALSE,
                                 !.pc[k] = Settle(svc, k, "rejected")]
  /\ out' = <<>>
  /\ DiffViewUnchanged

\* The 'error' event of a process that could not be spawned.
ProcessError(k) ==
  /\ svc.process[k] = "failing"
  /\ svc' = [svc EXCEPT !.process[k] = "failed",
                        !.timer[k] = FALSE,
                        !.pc[k] = Settle(svc, k, "rejected")]
  /\ out' = <<>>
  /\ DiffViewUnchanged

\* The 'exit' event of a process, killed or ended by itself.
ProcessExit(k) ==
  /\ svc.process[k] \in {"alive", "killed"}
  /\ svc' = [svc EXCEPT
               !.process[k] = "exited",
               !.timer[k] = FALSE,
               !.pc[k] = IF svc.isRunning[k] THEN svc.pc[k]
                         ELSE Settle(svc, k, "rejected")]
  /\ out' = <<>>
  /\ DiffViewUnchanged

InitService ==
  /\ doc = <<>>
  /\ scheme = "file"
  /\ heap = [id \in ObjIds |-> NoObj]
  /\ fileChangeMap = None
  /\ reqs = [r \in ReqIds |-> IdleReq]
  /\ out = <<>>
  /\ g = NoHistory
  /\ dirty = FALSE
  /\ codeLenses = <<>>
  /\ svc \in {NewService(production) : production \in BOOLEAN}

NextService ==
  \/ \E k \in StartIds : start(k)
  \/ stop
  \/ \E k \in StartIds : restart(k)
  \/ \E k \in StartIds, code \in {0, 1} : CheckExit(k, code)
  \/ \E k \in StartIds, folderPath \in BOOLEAN, randomPort \in Ports,
        spawned \in BOOLEAN : Spawn(k, folderPath, randomPort, spawned)
  \/ \E k \in StartIds : checkServerRunning(k)
  \/ \E k \in StartIds : Timeout(k)
  \/ \E k \in StartIds : ProcessError(k)
  \/ \E k \in StartIds : ProcessExit(k)

SpecService == InitService /\ [][NextService]_vars

\* ------------------------------------------------------------- properties
\* The parts of the last diff that became change records, alone or paired.
ChangedParts == {k \in DOMAIN g.segs : g.segs[k].kind # "unchanged"}

\* The text the decisions dec leave of the parts segs: an unchanged part
\* stays, a removed part stays unless accepted, an added part stays unless
\* rejected.
Expected(segs, dec) ==
  Flatten([k \in DOMAIN segs |->
             IF segs[k].kind = "removed" /\ dec[k] = "accept" THEN <<>>
             ELSE IF segs[k].kind = "added" /\ dec[k] = "reject" THEN <<>>
             ELSE segs[k].value])

\* C1: once acceptAllChanges has finished on a changeset of which no record
\* had been rejected, the document is the proposed content.
C1_AcceptAllYieldsModified ==
  (/\ Quiet
   /\ g.op = "acceptAll"
   /\ \A k \in ChangedParts : g.dec[k] = "accept")
  => doc = g.M

\* C2: once rejectAllChanges has finished on a changeset of which no record
\* had been accepted, the document is the original content.
C2_RejectAllYieldsOriginal ==
  (/\ Quiet
   /\ g.op = "rejectAll"
   /\ \A k \in ChangedParts : g.dec[k] = "reject")
  => doc = g.O

\* A changeset has been resolved to its last record by single calls.
ResolvedBySingles == Quiet /\ fileChangeMap = None /\ g.op \in Ops

Addresses(block) ==
  TextOfLines(doc, block.line, block.line + block.count) = block.value

\* C4: once a call of acceptChange or rejectChange has finished, every record
\* still in the stored change list addresses its own text in the document.
C4_RecordsAddressContent ==
  (Quiet /\ g.op \in Ops) =>
    \A i \in 1..Len(Stored) :
      IF Stored[i].type = "modified"
      THEN Addresses(Stored[i].removed) /\ Addresses(Stored[i].added)
      ELSE Addresses(Stored[i])

\* First line and the line after the last one of a record.
SpanStart(change) == PrimaryLine(change)

SpanEnd(change) ==
  IF change.type = "modified" THEN change.added.line + change.added.count
  ELSE change.line + change.count

RECURSIVE LineOf(_, _)
LineOf(segs, k) ==
  IF k <= 1 THEN 0 ELSE LineOf(segs, k - 1) + segs[k - 1].count

\* The records of changes built from part k.
Mentions(changes, k) ==
  {i \in 1..Len(changes) :
     IF changes[i].type = "modified"
     THEN changes[i].removed.seg = k \/ changes[i].added.seg = k
     ELSE changes[i].seg = k}

\* The records of changes that are exactly the block of part k, standing
\* alone with the given type.
StandaloneOf(changes, segs, k, type) ==
  {i \in 1..Len(changes) :
     changes[i] = [type |-> type, line |-> LineOf(segs, k),
                   count |-> segs[k].count, value |-> segs[k].value,
                   seg |-> k]}

\* The records of changes that pair the removed part k with the added part
\* k + 1.
ModifiedOf(changes, segs, k) ==
  {i \in 1..Len(changes) :
     changes[i] =
       [type |-> "modified",
        removed |-> [type |-> "removed", line |-> LineOf(segs, k),
                     count |-> segs[k].count, value |-> segs[k].value,
                     seg |-> k],
        added |-> [type |-> "added", line |-> LineOf(segs, k + 1),
                   count |-> segs[k + 1].count,
                   value |-> segs[k + 1].value, seg |-> k + 1]]}

JustOpened == Quiet /\ g.op = "open"

\* C6: the change list openDiffView stores has exactly one Modified record
\* for a removed part followed by an added part, exactly one Removed record
\* for a removed part that is last or followed by an unchanged part, exactly
\* one Added record for an added part that follows no removed part, and
\* nothing else: no part is dropped, none gives two records.
C6_BuilderMergesParts ==
  JustOpened =>
    \A k \in DOMAIN g.segs :
      LET segs == g.segs
          here == Mentions(Stored, k)
      IN IF segs[k].kind = "unchanged" THEN here = {}
         ELSE IF segs[k].kind = "removed"
         THEN IF k < Len(segs) /\ segs[k + 1].kind = "added"
              THEN /\ Cardinality(here) = 1
                   /\ here = ModifiedOf(Stored, segs, k)
                   /\ here = Mentions(Stored, k + 1)
              ELSE /\ Cardinality(here) = 1
                   /\ here = StandaloneOf(Stored, segs, k, "removed")
         ELSE IF k > 1 /\ segs[k - 1].kind = "removed"
              THEN /\ Cardinality(here) = 1
                   /\ here = ModifiedOf(Stored, segs, k - 1)
              ELSE /\ Cardinality(here) = 1
                   /\ here = StandaloneOf(Stored, segs, k, "added")

\* A diff with a removed part followed by an unchanged one and a removed
\* part followed by an added one has been applied.
C6_Witness ==
  /\ JustOpened
  /\ \E j, k \in DOMAIN g.segs :
       /\ j < Len(g.segs) /\ k < Len(g.segs)
       /\ g.segs[j].kind = "removed" /\ g.segs[j + 1].kind = "unchanged"
       /\ g.segs[k].kind = "removed" /\ g.segs[k + 1].kind = "added"

\* A step that ends a call of acceptChange or rejectChange which resolved a
\* record: these calls alone emit the code lens signal first.
SingleResolved == out' # <<>> /\ Head(out') = "lens"

StoredAfter ==
  IF fileChangeMap' = None THEN <<>> ELSE heap'[fileChangeMap'].changes

\* The document as it was when the call that ends in this step started.
DocBefore ==
  IF reqs["r1"].pc = "resumed" THEN reqs["r1"].before ELSE doc

\* The record with every line coordinate lowered by n.
Lowered(change, n) ==
  IF change.type = "modified"
  THEN [type |-> "modified",
        removed |-> [type |-> "removed", line |-> change.removed.line - n,
                     count |-> change.removed.count,
                     value |-> change.removed.value,
                     seg |-> change.removed.seg],
        added |-> [type |-> "added", line |-> change.added.line - n,
                   count |-> change.added.count,
                   value |-> change.added.value, seg |-> change.added.seg]]
  ELSE [type |-> change.type, line |-> change.line - n,
        count |-> change.count, value |-> change.value, seg |-> change.seg]

\* C7: a call that resolves the record at index i removes exactly that
\* record, leaves the records before it as they were and lowers every line
\* coordinate of the records after it by the number of lines the document
\* lost through the call.
C7_RenumberByShrink ==
  [][SingleResolved =>
       \E i \in 1..Len(Stored) :
         LET shrink == LineCount(DocBefore) - LineCount(doc')
         IN /\ reqs["r1"].pc = "resumed" => i = reqs["r1"].index + 1
            /\ Len(StoredAfter) = Len(Stored) - 1
            /\ \A j \in 1..(i - 1) : StoredAfter[j] = Stored[j]
            /\ \A j \in i..Len(StoredAfter) :
                 StoredAfter[j] = Lowered(Stored[j + 1], shrink)]_vars

\* A record stands higher than where it was built: an earlier record was
\* resolved and took lines out of the document.
C7_Witness ==
  /\ Quiet
  /\ g.op \in Ops
  /\ \E i \in 1..Len(Stored) :
       /\ Stored[i].type = "modified"
       /\ Stored[i].added.line < LineOf(g.segs, Stored[i].added.seg)

\* C8: a call of acceptChange or rejectChange that resolves the last record
\* of the changeset leaves no changeset in the map.
C8_LastRecordEmptiesStore ==
  [][(SingleResolved /\ Len(Stored) = 1) => fileChangeMap' = None]_vars

\* The last record, a Modified one, was rejected by a single call and the
\* changeset is gone.
C8_Witness ==
  /\ ResolvedBySingles
  /\ g.op = "reject"
  /\ out = <<"lens", "reject", "close">>
  /\ \E k \in ChangedParts :
       k < Len(g.segs) /\ g.segs[k].kind = "removed"
         /\ g.segs[k + 1].kind = "added" /\ g.dec[k] = "reject"

\* C9: calls of acceptChange and rejectChange on the document do not
\* interleave: while one waits for its edit no other has started.
C9_ResolutionsDoNotInterleave ==
  Cardinality({r \in ReqIds : reqs[r].pc # "idle"}) <= 1

\* A call resumes after the host refused its edit.
Refused(r) ==
  /\ reqs[r].pc = "resumed"
  /\ ~reqs[r].applied
  /\ reqs[r].op \in Ops \cup {"acceptAll", "rejectAll"}

\* C10: when the host did not apply the edit of a resolution, the call
\* leaves the changeset in the map, with all its records and their line
\* coordinates.
C10_RefusedEditKeepsChangeset ==
  [][Refused("r1") =>
       /\ fileChangeMap' = fileChangeMap
       /\ StoredAfter = Stored]_vars

\* What a step emitted, as a set.
Emitted == {out'[k] : k \in DOMAIN out'}

\* C11: acceptChange or rejectChange called on the active document with an
\* index below 0 or not below the length of the stored change list raises no
\* error, emits nothing and leaves the document, the change list and the
\* map as they were.
C11_OutOfRangeIndexIsSilent ==
  [][\A op \in Ops : \A i \in Indices :
       (/\ fileChangeMap # None
        /\ (i < 0 \/ i >= Len(Stored))
        /\ ResolveBegin("r1", op, TRUE, TRUE, i, 0))
       => /\ out' = <<>>
          /\ UNCHANGED <<doc, heap, fileChangeMap>>]_vars

\* A call of one of the four resolution methods starts.
ResolutionCalled ==
  \/ Resolve("r1")
  \/ \E op \in {"acceptAll", "rejectAll"} : AllBegin("r1", op)

\* C12: acceptChange, rejectChange, acceptAllChanges and rejectAllChanges
\* called while the map has no changeset for the document issue no edit,
\* emit nothing, save and close nothing and leave the map as it was.
C12_MissingChangesetIsNoOp ==
  [][(Quiet /\ fileChangeMap = None /\ ResolutionCalled)
       => /\ out' = <<>>
          /\ UNCHANGED <<doc, scheme, heap, fileChangeMap, reqs, g,
                         dirty>>]_vars

\* The changeset has been resolved to its end and a later call found none.
C12_Witness ==
  /\ Quiet
  /\ fileChangeMap = None
  /\ g.op \in {"accept", "reject", "acceptAll", "rejectAll"}
  /\ out = <<>>

\* C13: the step of a resolution that takes the changeset out of the map
\* saves the document after an accept, whatever its scheme, and after a
\* reject of a 'file' document; after a reject of a document of another
\* scheme it closes the editor and saves nothing.
C13_SaveOrCloseOnEmpty ==
  [][(fileChangeMap # None /\ fileChangeMap' = None)
       => IF g'.op \in {"accept", "acceptAll"} \/ scheme = "file"
          THEN "save" \in Emitted /\ "close" \notin Emitted /\ ~dirty'
          ELSE "close" \in Emitted /\ "save" \notin Emitted]_vars

\* The last record of an 'untitled' document was accepted by a single call
\* and the document was saved.
C13_Witness ==
  /\ ResolvedBySingles
  /\ scheme = "untitled"
  /\ g.op = "accept"
  /\ out = <<"lens", "accept", "save">>

\* C19: between calls a changeset in the map has at least one record.
C19_NoEmptyChangeset ==
  (Quiet /\ fileChangeMap # None) => Len(Stored) >= 1

\* C14: the close of the document between two calls issues no edit and
\* leaves the map without a changeset; it fires 'reject' once, and nothing
\* else, when there was a changeset, and nothing at all when there was none.
C14_CloseDiscardsChangeset ==
  [][(Quiet /\ CloseDocument)
       => /\ doc' = doc
          /\ reqs' = reqs
          /\ fileChangeMap' = None
          /\ out' = IF fileChangeMap # None THEN <<"reject">> ELSE <<>>]_vars

\* The document was closed while records of its changeset were pending.
C14_Witness ==
  /\ Quiet
  /\ fileChangeMap = None
  /\ g.op = "close"
  /\ out = <<"reject">>
  /\ \E k \in ChangedParts : g.dec[k] = "pending"

\* The lenses the host holds are those of the stored change list.
LensesCurrent == codeLenses = provideCodeLenses(fileChangeMap, heap)

\* C16: provideCodeLenses returns, for the stored change list, an Accept and
\* a Reject lens per record, at the primary line of the record and with its
\* position in the list, and nothing without a changeset; a click on a lens
\* of the current list resolves the record the lens stands at.
C16_LensesAddressRecords ==
  [][/\ ProvideCodeLenses =>
          /\ Len(codeLenses') = 2 * Len(Stored)
          /\ \A i \in 1..Len(Stored) :
               /\ codeLenses'[2 * i - 1] =
                    CodeLens("Accept", PrimaryLine(Stored[i]), i - 1)
               /\ codeLenses'[2 * i] =
                    CodeLens("Reject", PrimaryLine(Stored[i]), i - 1)
          /\ fileChangeMap = None => codeLenses' = <<>>
     /\ \A k \in 1..Len(codeLenses) :
          LET lens == codeLenses[k]
          IN (/\ Quiet
              /\ LensesCurrent
              /\ ResolveBegin("r1", LensOp(lens), TRUE, TRUE, lens.index, 0))
             => /\ lens.index \in 0..(Len(Stored) - 1)
                /\ PrimaryLine(Stored[lens.index + 1]) = lens.line
                /\ \/ /\ reqs'["r1"].pc = "await"
                      /\ reqs'["r1"].index = lens.index
                      /\ reqs'["r1"].op = LensOp(lens)
                   \/ /\ reqs'["r1"].pc = "idle"
                      /\ g'.op = LensOp(lens)
                      /\ StoredAfter = drawChanges(Stored, lens.index, 0)
                ]_vars

\* The host holds the lenses of a list of two records of which the second
\* is a Modified one, and the first record has been resolved by a click.
C16_Witness ==
  /\ Quiet
  /\ g.op \in Ops
  /\ Len(codeLenses) = 4
  /\ Len(Stored) = 1
  /\ Stored[1].type = "modified"
  /\ codeLenses[3].line > PrimaryLine(Stored[1])

\* C17: a step that changes the stored change list, or puts a changeset in
\* the map or takes it out, fires the code lens signal.
C17_MutationSignalsLenses ==
  [][(fileChangeMap' # fileChangeMap \/ StoredAfter # Stored)
       => "lens" \in Emitted]_vars

\* A call is between the edit the host applied for it and its update of the
\* change list.
InWindow(r) == reqs[r].pc = "resumed" /\ reqs[r].applied

\* C20: provideCodeLenses does not run while a call on the document is
\* between its applied edit and its update of the change list.
C20_NoReaderInWritersWindow ==
  ~(out = <<"codeLenses">> /\ \E r \in ReqIds : InWindow(r))

\* The step that ends a call of openDiffView.
OpenFinished ==
  /\ reqs["r1"].pc = "resumed"
  /\ reqs["r1"].op = "open"
  /\ reqs'["r1"].pc = "idle"

\* The changeset in the map is the only one, and it is the one the ending
\* call built from the text it read and the modified content.
StoresItsOwn(modified) ==
  /\ fileChangeMap' # None
  /\ Cardinality({id \in ObjIds : heap'[id].live}) = 1
  /\ heap'[fileChangeMap'].originalContent = reqs["r1"].before
  /\ heap'[fileChangeMap'].modifiedContent = modified
  /\ \E differences \in diffLines(reqs["r1"].before, modified) :
       heap'[fileChangeMap'].changes = BuildChanges(differences).changes

\* C15, as stated: when openDiffView ends, the map holds one changeset for
\* the document, built by that call, its original being the text the call
\* read and its modified the proposed content, whether or not there was a
\* changeset before.
C15_OpenStoresProposedContent ==
  [][OpenFinished => StoresItsOwn(reqs["r1"].content)]_vars

\* C15, amended: the same, the modified content being the proposed content
\* with its line breaks replaced by the line break of the document.
C15_OpenStoresItsChangeset ==
  [][OpenFinished => StoresItsOwn(ReplaceEol(reqs["r1"].content))]_vars

\* A call of openDiffView has ended on a document that had a changeset of
\* two records: the new object took the place of the old one in the map.
C15_Witness ==
  /\ JustOpened
  /\ fileChangeMap = 2
  /\ Len(Stored) = 2

\* C18: once rejectAllFile has finished on a changeset of which no record
\* had been accepted, the map has no changeset and the document is the
\* original content.
C18_RejectAllFileRestores ==
  (/\ Quiet
   /\ g.op = "rejectAllFile"
   /\ \A k \in ChangedParts : g.dec[k] = "reject")
  => /\ fileChangeMap = None
     /\ doc = g.O

\* The edit of a call of acceptChange or rejectChange by r is issued and
\* the host has not completed it.
EditInFlight(r) == reqs[r].pc = "await" /\ reqs[r].op \in Ops

\* C21: while the edit of acceptChange or rejectChange is issued and not
\* completed, the call removes no record, renumbers none and fires no code
\* lens signal: the step taken from that state is the host's, and it leaves
\* the map and the change lists as they are.
C21_UpdateAfterEditCompleted ==
  [][EditInFlight("r1")
       => /\ fileChangeMap' = fileChangeMap
          /\ heap' = heap
          /\ "lens" \notin Emitted
          /\ reqs'["r1"].pc = "resumed"]_vars

\* The host has applied the edit of a call that accepts a record, and the
\* record is still in the list, at its index, for the call to remove.
C21_Witness ==
  /\ reqs["r1"].pc = "resumed"
  /\ reqs["r1"].op = "accept"
  /\ reqs["r1"].applied
  /\ doc # reqs["r1"].before
  /\ Len(Stored) >= 2
  /\ reqs["r1"].index < Len(Stored) - 1

\* The list changes without its record at position i (from 1).
Without(changes, i) ==
  SubSeq(changes, 1, i - 1) \o SubSeq(changes, i + 1, Len(changes))

\* C22: rejectChange on a Removed record and acceptChange on an Added record
\* issue no edit; the document stays as it is and the list loses the
\* resolved record and nothing else.
C22_NoEditCases ==
  [][\A i \in 1..Len(Stored) :
       (/\ Quiet
        /\ \/ /\ Stored[i].type = "removed"
              /\ ResolveBegin("r1", "reject", TRUE, TRUE, i - 1, 0)
           \/ /\ Stored[i].type = "added"
              /\ ResolveBegin("r1", "accept", TRUE, TRUE, i - 1, 0))
       => /\ doc' = doc
          /\ reqs' = reqs
          /\ StoredAfter = Without(Stored, i)]_vars

\* A Removed record was rejected and the records after it are still stored.
C22_Witness ==
  /\ Quiet
  /\ g.op = "reject"
  /\ Len(Stored) >= 1
  /\ \E k \in ChangedParts :
       /\ g.segs[k].kind = "removed"
       /\ g.dec[k] = "reject"
       /\ k < Len(g.segs)
       /\ g.segs[k + 1].kind = "unchanged"
       /\ \E j \in ChangedParts : j > k /\ g.dec[j] = "pending"

\* The blocks of a record.
BlocksOf(change) ==
  IF change.type = "modified" THEN {change.removed, change.added}
  ELSE {change}

\* C23: right after openDiffView the document is the concatenation of the
\* texts of the parts of the diff, in order; the line of every block of a
\* record is the sum of the line counts of the parts before its part, and
\* the rows from that line on, as many as the block counts, hold the text
\* of the part.
C23_CombinedBufferCoordinates ==
  JustOpened =>
    /\ doc = Flatten([k \in DOMAIN g.segs |-> g.segs[k].value])
    /\ \A i \in 1..Len(Stored) : \A block \in BlocksOf(Stored[i]) :
         /\ block.line = LineOf(g.segs, block.seg)
         /\ block.count = g.segs[block.seg].count
         /\ block.value = g.segs[block.seg].value
         /\ Addresses(block)

\* C24: in every state, in every change list the map or a call holds, the
\* added block of a Modified record starts on the row after its removed
\* block.
C24_AddedRightBelowRemoved ==
  \A id \in ObjIds : \A i \in 1..Len(heap[id].changes) :
    LET change == heap[id].changes[i]
    IN change.type = "modified" =>
         change.added.line = change.removed.line + change.removed.count

\* A Modified record stands higher than where it was built: a record
\* before it was resolved with lines taken out of the document.
C24_Witness ==
  /\ Quiet
  /\ g.op \in Ops
  /\ \E i \in 1..Len(Stored) :
       /\ Stored[i].type = "modified"
       /\ Stored[i].removed.line < LineOf(g.segs, Stored[i].removed.seg)
       /\ Stored[i].removed.count = 1

\* The step that ends a call of acceptChange or rejectChange by r1 whose
\* changeset is no longer the one in the map.
StaleFinished ==
  /\ reqs["r1"].pc = "resumed"
  /\ reqs["r1"].op \in Ops
  /\ reqs'["r1"].pc = "idle"
  /\ fileChangeMap # None
  /\ fileChangeMap # reqs["r1"].fc

\* C25: a call of acceptChange or rejectChange that ends after openDiffView
\* has put a new changeset in the map leaves that changeset in the map,
\* with its change list as it was.
C25_StaleResolutionKeepsNewChangeset ==
  [][StaleFinished
       => /\ fileChangeMap' = fileChangeMap
          /\ heap'[fileChangeMap] = heap[fileChangeMap]]_vars

\* C26: every process of the service that is alive is the one the service
\* refers to, so that at most one is alive and stop ends it.
C26_OnlyReferencedProcessAlive ==
  \A k \in StartIds :
    svc.process[k] = "alive" => svc.aiderChatProcess = k

====
